---- MODULE Spec2Model ----
(***************************************************************************)
(* A model of SkSL's CPPCodeGenerator (src/sksl/SkSLCPPCodeGenerator.cpp): *)
(* the backend that lowers a fragment-processor program into the text of   *)
(* a GrFragmentProcessor implementation.                                   *)
(*                                                                         *)
(* Text is modelled as a sequence of tokens.  A token is a record          *)
(* [part, name, idx]: part names the literal piece of text that a write    *)
(* produces, name and idx carry what was substituted into it.  The format  *)
(* placeholders %s, %d, %f and the escaped %% are tokens of their own.     *)
(***************************************************************************)
EXTENDS Integers, Sequences, FiniteSets, TLC

\* ------------------------------------------------------------------ bounds
MaxVars == 2          \* most top-level declarations in a program
MaxBody == 3          \* most statements in the body of main
MaxIndex == 1         \* largest literal index into sk_TransformedCoords2D

\* --------------------------------------------------------------- constants
\* The identifiers of the builtin variables: the generator compares them
\* with one another only.
SK_INCOLOR_BUILTIN == 10003
SK_OUTCOLOR_BUILTIN == 10004
SK_TRANSFORMEDCOORDS2D_BUILTIN == 10005
SK_TEXTURESAMPLERS_BUILTIN == 10006
\* fBuiltin of a variable that is no builtin
NoBuiltin == -1
\* GLSLCodeGenerator::Precedence
kPostfix_Precedence == 2
kMultiplicative_Precedence == 4
kAdditive_Precedence == 5
kSequence_Precedence == 17
kTopLevel_Precedence == kSequence_Precedence

\* ------------------------------------------------------------------- text
Tok(part, name, idx) == [part |-> part, name |-> name, idx |-> idx]
T(part) == Tok(part, "", 0)

Placeholders == {"%s", "%d", "%f"}

\* The placeholders of a text, in order (an escaped %% is not one).
RECURSIVE PlaceholdersOf(_)
PlaceholdersOf(text) ==
    IF text = <<>> THEN <<>>
    ELSE (IF Head(text).part \in Placeholders THEN <<Head(text).part>> ELSE <<>>)
         \o PlaceholdersOf(Tail(text))

\* The tokens of a text whose part is p, in order.
RECURSIVE Parts(_, _)
Parts(text, p) ==
    IF text = <<>> THEN <<>>
    ELSE (IF Head(text).part = p THEN <<Head(text)>> ELSE <<>>)
         \o Parts(Tail(text), p)

\* ------------------------------------------------------------ the program
\* A Variable: name, type name, the uniform and in flags, the layout's
\* builtin, key and when, its storage, the offset of its declaration and
\* whether the declaration has an initial value.
Var(name, type, uniform, in, key, when, hasValue) ==
    [name |-> name, type |-> type, uniform |-> uniform, in |-> in,
     builtin |-> NoBuiltin, key |-> key, when |-> when, hasValue |-> hasValue,
     storage |-> "global", offset |-> 0]

Builtin(name, type, builtin) ==
    [name |-> name, type |-> type, uniform |-> FALSE, in |-> FALSE,
     builtin |-> builtin, key |-> "no", when |-> FALSE, hasValue |-> FALSE,
     storage |-> "global", offset |-> 0]

\* A variable declared inside a function.
Local(name, type) == [Builtin(name, type, NoBuiltin) EXCEPT !.storage = "local"]

NoVar == Builtin("", "", NoBuiltin)

ScalarTypes == {"float", "half", "int", "bool"}
VectorTypes == {"float2", "half2", "float4", "half4"}
MatrixTypes == {"float4x4", "half4x4"}
SamplerTypes == {"sampler2D"}

\* Type::kind()
kind(type) ==
    CASE type \in ScalarTypes -> "scalar"
      [] type \in VectorTypes -> "vector"
      [] type \in MatrixTypes -> "matrix"
      [] type \in SamplerTypes -> "sampler"
      [] OTHER -> "other"

\* Type::isFloat()
isFloat(type) == type \in {"float", "half"}

\* An Expression: kind is one of "ref" (VariableReference to var), "int"
\* (IntLiteral of value), "index" (IndexExpression, args = <<base, index>>),
\* "binary" (BinaryExpression with operator name, args = <<left, right>>),
\* "call" (FunctionCall of builtin function name, args its arguments) and
\* "setting" (Setting of type var.type named name).
Expr(k, name, var, value, args) ==
    [kind |-> k, name |-> name, var |-> var, value |-> value, args |-> args,
     offset |-> 0]

Ref(v) == Expr("ref", "", v, 0, <<>>)
IntLit(n) == Expr("int", "", NoVar, n, <<>>)
Index(base, index) == Expr("index", "", NoVar, 0, <<base, index>>)
Binary(op, l, r) == Expr("binary", op, NoVar, 0, <<l, r>>)
Call(fn, args) == Expr("call", fn, NoVar, 0, args)
Setting(name, type) == Expr("setting", name, Builtin("", type, NoBuiltin), 0, <<>>)

\* Places an expression at offset off and its k-th operand at 10 * off + k,
\* so that every node of a statement has an offset of its own.
RECURSIVE WithOffset(_, _)
WithOffset(e, off) ==
    [e EXCEPT !.offset = off,
              !.args = [k \in DOMAIN e.args |-> WithOffset(e.args[k], 10 * off + k)]]

\* The program being compiled: vars are the variables of its top-level
\* declarations in order, body the expression statements of main, sections
\* its author-supplied sections in order.
VARIABLES fProgram

\* The generator instance, its position in generateCode, and the environment.
\* cg is the CPPCodeGenerator instance; pc the position in generateCode;
\* uniforms, idx, result, old and oldOut the locals of generateCode,
\* writeEmitCode and writeFunction; inherited what
\* GLSLCodeGenerator::generateCode returns for this program; run counts the
\* generator instances used so far and first is the first instance once a
\* second one is at work.
VARIABLES cg, pc, uniforms, idx, result, old, oldOut, inherited, run, first

vars == <<fProgram, cg, pc, uniforms, idx, result, old, oldOut, inherited, run,
          first>>

kColorSpaceXform == "colorSpaceXform"

\* SectionAndParameterHelper::IsParameter
IsParameter(var) == var.in /\ var.builtin = NoBuiltin

\* SectionAndParameterHelper::getParameters
getParameters == SelectSeq(fProgram.vars, IsParameter)

\* SectionAndParameterHelper::getSections, getSection (the first match).
getSections(name) == SelectSeq(fProgram.sections, LAMBDA s : s.name = name)
hasSection(name) == getSections(name) # <<>>
getSection(name) == Head(getSections(name))

\* ---------------------------------------------------- the generator's state
\* The constructor: the members as a fresh instance has them.  fOut names
\* the stream that write() appends to; "out" is the stream the caller gave.
NewGenerator ==
    [fOut |-> "out",
     streams |-> [out |-> <<>>, mainBuffer |-> <<>>, buffer |-> <<>>],
     fFormatArgs |-> <<>>,
     fExtraEmitCodeCode |-> <<>>,
     fWrittenTransformedCoords |-> {},
     fFunctionHeader |-> <<>>,
     fVarCount |-> 0,
     fNeedColorSpaceHelper |-> FALSE,
     fErrors |-> <<>>,
     abort |-> "",
     assertFailed |-> {}]

\* A format argument: the host expression code(name, idx), wrapped as wrap
\* says; fmt is the conversion that an expression of its C++ type takes.
Arg(fmt, wrap, code, name, i) ==
    [fmt |-> fmt, wrap |-> wrap, code |-> code, name |-> name, idx |-> i]

\* OutputStream::write through fOut
write(g, text) == [g EXCEPT !.streams[g.fOut] = @ \o text]

\* fFormatArgs.push_back
push_back(g, arg) == [g EXCEPT !.fFormatArgs = Append(@, arg)]

\* ErrorReporter::error
error(g, offset, msg) ==
    [g EXCEPT !.fErrors = Append(@, [offset |-> offset, msg |-> msg])]

\* ABORT: the process ends; nothing later in the pass runs.
ABORT(g, msg) == IF g.abort = "" THEN [g EXCEPT !.abort = msg] ELSE g

\* ASSERT(cond): a failed assertion is recorded under the name what.
ASSERT(g, cond, what) ==
    IF cond THEN g ELSE [g EXCEPT !.assertFailed = @ \cup {what}]

\* default_value: the text, and whether it aborts instead.
default_value(type) == Tok("default_value", type, 0)
default_value_aborts(type) ==
    type # kColorSpaceXform /\ kind(type) \notin {"scalar", "vector", "matrix"}

is_private(var) ==
    ~var.uniform /\ ~var.in /\ var.storage = "global" /\ var.builtin = NoBuiltin

needs_uniform_var(var) == var.uniform /\ var.type # kColorSpaceXform

writeRuntimeValue(g, type, cppCode) ==
    IF isFloat(type) THEN
        push_back(write(g, <<T("%f")>>), Arg("%f", "", cppCode.code, cppCode.name, 0))
    ELSE IF type = "int" THEN
        push_back(write(g, <<T("%d")>>), Arg("%d", "", cppCode.code, cppCode.name, 0))
    ELSE IF type = "bool" THEN
        push_back(write(g, <<T("%s")>>), Arg("%s", "bool", cppCode.code, cppCode.name, 0))
    ELSE IF type \in {"float2", "half2"} THEN
        push_back(push_back(
            write(g, <<Tok("ctor(", type, 0), T("%f"), T(", "), T("%f"), T(")")>>),
            Arg("%f", ".fX", cppCode.code, cppCode.name, 0)),
            Arg("%f", ".fY", cppCode.code, cppCode.name, 0))
    ELSE
        ABORT(write(g, <<Tok("type", type, 0), T("\n")>>),
              "unsupported runtime value type")

\* The number of sampler parameters before var, or -1 when var is no parameter.
RECURSIVE SamplerSlot(_, _, _)
SamplerSlot(params, var, samplerCount) ==
    IF params = <<>> THEN -1
    ELSE IF Head(params).name = var.name THEN samplerCount
    ELSE SamplerSlot(Tail(params), var,
                     IF kind(Head(params).type) = "sampler"
                     THEN samplerCount + 1 ELSE samplerCount)

getSamplerHandle(var) == SamplerSlot(getParameters, var, 0)

\* The literals of the model are within int32_t, where the narrowing cast
\* changes nothing.
writeIntLiteral(g, i) == write(g, <<Tok("int", "", i.value)>>)

RECURSIVE writeExpression(_, _, _)
RECURSIVE writeIndexExpression(_, _)
RECURSIVE writeBinaryExpression(_, _, _)
RECURSIVE writeFunctionCall(_, _)
RECURSIVE writeArguments(_, _, _)

writeVariableReference(g, ref) ==
    LET var == ref.var IN
    IF var.builtin = SK_INCOLOR_BUILTIN THEN
        push_back(write(g, <<T("%s")>>), Arg("%s", "", "args.fInputColor", "", 0))
    ELSE IF var.builtin = SK_OUTCOLOR_BUILTIN THEN
        push_back(write(g, <<T("%s")>>), Arg("%s", "", "args.fOutputColor", "", 0))
    ELSE IF kind(var.type) = "sampler" THEN
        LET g1 == write(g, <<T("%s")>>)
            handle == getSamplerHandle(var)
        IN  IF handle < 0 THEN ABORT(g1, "should have found sampler in parameters")
            ELSE push_back(g1, Arg("%s", "", "samplerVariable", "", handle))
    ELSE IF var.uniform THEN
        LET g1 == write(g, <<T("%s")>>)
            g2 == IF var.type = kColorSpaceXform
                  THEN ASSERT(g1, g1.fNeedColorSpaceHelper, "fNeedColorSpaceHelper")
                  ELSE g1
            code == IF var.type = kColorSpaceXform
                    THEN "fColorSpaceHelper.gamutXformUniform" ELSE "getUniformCStr"
        IN  IF var.when /\ default_value_aborts(var.type)
            THEN ABORT(g2, "unsupported default_value type")
            ELSE push_back(g2, Arg("%s", IF var.when THEN "when" ELSE "",
                                   code, var.name, 0))
    ELSE IF IsParameter(var) THEN
        writeRuntimeValue(g, var.type, [code |-> "_outer", name |-> var.name])
    ELSE
        write(g, <<Tok("name", var.name, 0)>>)

\* GLSLCodeGenerator::writeIndexExpression
INHERITED_writeIndexExpression(g, i) ==
    LET g1 == writeExpression(g, i.args[1], kPostfix_Precedence)
        g2 == writeExpression(write(g1, <<T("[")>>), i.args[2], kTopLevel_Precedence)
    IN  write(g2, <<T("]")>>)

\* writeIndexExpression without the look-up in fWrittenTransformedCoords.
writeIndexExpression_NoLookup(g, i) ==
    LET base == i.args[1]
        index == i.args[2]
        builtin == base.var.builtin
    IN
    IF base.kind = "ref" /\ builtin = SK_TRANSFORMEDCOORDS2D_BUILTIN THEN
        LET g1 == write(g, <<T("%s")>>) IN
        IF index.kind # "int" THEN
            error(g1, index.offset,
                  "index into sk_TransformedCoords2D must be an integer literal")
        ELSE
            [push_back(g1, Arg("%s", "", "sk_TransformedCoords2D_", "", index.value))
             EXCEPT !.fExtraEmitCodeCode =
                        Append(@, Tok("ensureCoords2D", "", index.value)),
                    !.fWrittenTransformedCoords = @ \cup {index.value}]
    ELSE IF base.kind = "ref" /\ builtin = SK_TEXTURESAMPLERS_BUILTIN THEN
        LET g1 == write(g, <<T("%s")>>) IN
        IF index.kind # "int" THEN
            error(g1, index.offset,
                  "index into sk_TextureSamplers must be an integer literal")
        ELSE
            push_back(g1, Arg("%s", "", "samplerVariable", "", index.value))
    ELSE
        INHERITED_writeIndexExpression(g, i)

\* writeIndexExpression that goes on after reporting a non-literal index.
writeIndexExpression_NoReturn(g, i) ==
    LET base == i.args[1]
        index == i.args[2]
        builtin == base.var.builtin
    IN
    IF base.kind = "ref" /\ builtin = SK_TRANSFORMEDCOORDS2D_BUILTIN THEN
        LET g1 == write(g, <<T("%s")>>)
            g2 == IF index.kind # "int"
                  THEN error(g1, index.offset,
                             "index into sk_TransformedCoords2D must be an integer literal")
                  ELSE g1
            g3 == push_back(g2, Arg("%s", "", "sk_TransformedCoords2D_", "",
                                    index.value))
        IN  IF index.value \notin g3.fWrittenTransformedCoords THEN
                [g3 EXCEPT
                   !.fExtraEmitCodeCode =
                       Append(@, Tok("ensureCoords2D", "", index.value)),
                   !.fWrittenTransformedCoords = @ \cup {index.value}]
            ELSE g3
    ELSE IF base.kind = "ref" /\ builtin = SK_TEXTURESAMPLERS_BUILTIN THEN
        LET g1 == write(g, <<T("%s")>>)
            g2 == IF index.kind # "int"
                  THEN error(g1, index.offset,
                             "index into sk_TextureSamplers must be an integer literal")
                  ELSE g1
        IN  push_back(g2, Arg("%s", "", "samplerVariable", "", index.value))
    ELSE
        INHERITED_writeIndexExpression(g, i)

writeIndexExpression(g, i) ==
    LET base == i.args[1]
        index == i.args[2]
        builtin == base.var.builtin
    IN
    IF base.kind = "ref" /\ builtin = SK_TRANSFORMEDCOORDS2D_BUILTIN THEN
        LET g1 == write(g, <<T("%s")>>) IN
        IF index.kind # "int" THEN
            error(g1, index.offset,
                  "index into sk_TransformedCoords2D must be an integer literal")
        ELSE
            LET g2 == push_back(g1, Arg("%s", "", "sk_TransformedCoords2D_", "",
                                        index.value))
            IN  IF index.value \notin g2.fWrittenTransformedCoords THEN
                    [g2 EXCEPT
                       !.fExtraEmitCodeCode =
                           Append(@, Tok("ensureCoords2D", "", index.value)),
                       !.fWrittenTransformedCoords = @ \cup {index.value}]
                ELSE g2
    ELSE IF base.kind = "ref" /\ builtin = SK_TEXTURESAMPLERS_BUILTIN THEN
        LET g1 == write(g, <<T("%s")>>) IN
        IF index.kind # "int" THEN
            error(g1, index.offset,
                  "index into sk_TextureSamplers must be an integer literal")
        ELSE
            push_back(g1, Arg("%s", "", "samplerVariable", "", index.value))
    ELSE
        INHERITED_writeIndexExpression(g, i)

\* GetBinaryPrecedence
GetBinaryPrecedence(op) ==
    IF op = "%" THEN kMultiplicative_Precedence ELSE kAdditive_Precedence

\* GLSLCodeGenerator::writeBinaryExpression
INHERITED_writeBinaryExpression(g, b, parentPrecedence) ==
    LET precedence == GetBinaryPrecedence(b.name)
        paren == precedence >= parentPrecedence
        g1 == IF paren THEN write(g, <<T("(")>>) ELSE g
        g2 == writeExpression(g1, b.args[1], precedence)
        g3 == writeExpression(write(g2, <<Tok("operator", b.name, 0)>>),
                              b.args[2], precedence)
    IN  IF paren THEN write(g3, <<T(")")>>) ELSE g3

writeBinaryExpression(g, b, parentPrecedence) ==
    IF b.name = "%" THEN
        LET precedence == GetBinaryPrecedence(b.name)
            paren == precedence >= parentPrecedence
            g1 == IF paren THEN write(g, <<T("(")>>) ELSE g
            g2 == writeExpression(g1, b.args[1], precedence)
            g3 == writeExpression(write(g2, <<T("%%")>>), b.args[2], precedence)
        IN  IF paren THEN write(g3, <<T(")")>>) ELSE g3
    ELSE
        INHERITED_writeBinaryExpression(g, b, parentPrecedence)

\* The arguments of a call from the k-th on, comma separated.
writeArguments(g, args, k) ==
    IF k > Len(args) THEN g
    ELSE LET g1 == IF k > 1 THEN write(g, <<T(", ")>>) ELSE g
         IN  writeArguments(writeExpression(g1, args[k], kSequence_Precedence), args, k + 1)

\* GLSLCodeGenerator::writeFunctionCall
INHERITED_writeFunctionCall(g, c) ==
    write(writeArguments(write(g, <<Tok("call(", c.name, 0)>>), c.args, 1),
          <<T(")")>>)

\* writeFunctionCall with a counter that all instances share: the second
\* instance goes on from where the first stopped.
writeFunctionCall_StaticCounter(g, c) ==
    IF c.name = "COLORSPACE" THEN
        LET n == first.fVarCount + g.fVarCount + 1
            g1 == [g EXCEPT !.fVarCount = @ + 1,
                            !.fFunctionHeader = Append(@, Tok("half4 _tmpVar", "", n))]
            g3 == push_back(write(g1, <<T("%s")>>),
                            Arg("%s", "", "(_tmpVar = ", "", n))
            g4 == writeExpression(g3, c.args[1], kTopLevel_Precedence)
        IN  push_back(write(g4, <<T("%s")>>),
                      Arg("%s", "", "clamp(xform * _tmpVar)", "", n))
    ELSE
        LET g1 == INHERITED_writeFunctionCall(g, c) IN
        IF c.name = "texture" THEN
            LET g2 == write(g1, <<T("."), T("%s")>>)
                sampler == getSamplerHandle(c.args[1].var)
            IN  IF sampler < 0
                THEN ABORT(g2, "should have found sampler in parameters")
                ELSE push_back(g2, Arg("%s", "", "samplerSwizzle", "", sampler))
        ELSE g1

writeFunctionCall(g, c) ==
    IF c.name = "COLORSPACE" THEN
        LET n == g.fVarCount + 1
            g1 == [g EXCEPT !.fVarCount = n,
                            !.fFunctionHeader = Append(@, Tok("half4 _tmpVar", "", n))]
            g2 == ASSERT(g1, Len(c.args) = 2, "c.fArguments.size() == 2")
            g3 == push_back(write(g2, <<T("%s")>>),
                            Arg("%s", "", "(_tmpVar = ", "", n))
            g4 == writeExpression(g3, c.args[1], kTopLevel_Precedence)
            g5 == ASSERT(g4, c.args[2].kind = "ref", "kVariableReference_Kind")
        IN  push_back(write(g5, <<T("%s")>>),
                      Arg("%s", "", "clamp(xform * _tmpVar)", "", n))
    ELSE
        LET g1 == INHERITED_writeFunctionCall(g, c) IN
        IF c.name = "texture" THEN
            LET g2 == ASSERT(ASSERT(write(g1, <<T("."), T("%s")>>),
                                    Len(c.args) >= 1, "c.fArguments.size() >= 1"),
                             c.args[1].kind = "ref", "kVariableReference_Kind")
                sampler == getSamplerHandle(c.args[1].var)
            IN  IF sampler < 0
                THEN ABORT(g2, "should have found sampler in parameters")
                ELSE push_back(g2, Arg("%s", "", "samplerSwizzle", "", sampler))
        ELSE g1

writeSetting(g, s) ==
    IF s.value = 1 THEN
        writeRuntimeValue(g, s.var.type, [code |-> "FieldName", name |-> s.name])
    ELSE
        write(g, <<Tok("name", s.name, 0)>>)

\* GLSLCodeGenerator::writeExpression: dispatch on the kind of the node.
\* Nothing runs after an ABORT.
writeExpression(g, e, parentPrecedence) ==
    IF g.abort # "" THEN g
    ELSE CASE e.kind = "ref" -> writeVariableReference(g, e)
           [] e.kind = "int" -> writeIntLiteral(g, e)
           [] e.kind = "index" -> writeIndexExpression(g, e)
           [] e.kind = "binary" -> writeBinaryExpression(g, e, parentPrecedence)
           [] e.kind = "call" -> writeFunctionCall(g, e)
           [] e.kind = "setting" -> writeSetting(g, e)

\* ------------------------------------------------- the synthesized methods
\* writef formats and writes through fOut.
writef(g, text) == write(g, text)

writeSection(g, name) ==
    IF hasSection(name)
    THEN writef(g, <<Tok("section", getSection(name).text, 0)>>)
    ELSE g

\* The supported uniform types of addUniform.
UniformTypes == {"float", "half", "float2", "half2", "float4", "half4",
                 "float4x4", kColorSpaceXform, "half4x4"}

addUniform(g, var) ==
    IF ~needs_uniform_var(var) THEN g
    ELSE IF var.type \notin UniformTypes THEN ABORT(g, "unsupported uniform type")
    ELSE LET g1 == IF var.when THEN writef(g, <<Tok("if (when) {", var.name, 0)>>)
                   ELSE g
             g2 == writef(g1, <<Tok("addUniform", var.name, 0)>>)
         IN  IF var.when THEN write(g2, <<T("}")>>) ELSE g2

\* The text that a loop over the sequence seq writes: text(x) for every x
\* that keep(x) holds of, in order.
RECURSIVE Flatten(_)
Flatten(texts) ==
    IF texts = <<>> THEN <<>> ELSE Head(texts) \o Flatten(Tail(texts))

ForEach(seq, keep(_), text(_)) ==
    LET kept == SelectSeq(seq, keep)
    IN  Flatten([k \in 1..Len(kept) |-> text(kept[k])])

writePrivateVars(g) ==
    writef(g, ForEach(fProgram.vars, is_private,
                      LAMBDA v : <<Tok("private field", v.name, 0)>>))

writePrivateVarValues(g) ==
    writef(g, ForEach(fProgram.vars, LAMBDA v : is_private(v) /\ v.hasValue,
                      LAMBDA v : <<Tok("private value", v.name, 0)>>))

\* registerUniform with the flag set ahead of the test of it.
registerUniform_FlagFirst(g, u) ==
    LET g1 == addUniform(g, u) IN
    IF g1.abort # "" THEN g1
    ELSE IF u.type = kColorSpaceXform THEN
        LET g2 == [g1 EXCEPT !.fNeedColorSpaceHelper = TRUE]
            g3 == IF g2.fNeedColorSpaceHelper
                  THEN error(g2, u.offset, "only a single ColorSpaceXform is supported")
                  ELSE g2
        IN  writef(g3, <<Tok("fColorSpaceHelper.emitCode", u.name, 0)>>)
    ELSE g1

\* The body of the loop of writeEmitCode over the uniforms.
registerUniform(g, u) ==
    LET g1 == addUniform(g, u) IN
    IF g1.abort # "" THEN g1
    ELSE IF u.type = kColorSpaceXform THEN
        LET g2 == IF g1.fNeedColorSpaceHelper
                  THEN error(g1, u.offset, "only a single ColorSpaceXform is supported")
                  ELSE g1
        IN  writef([g2 EXCEPT !.fNeedColorSpaceHelper = TRUE],
                   <<Tok("fColorSpaceHelper.emitCode", u.name, 0)>>)
    ELSE g1

\* writeEmitCode up to the loop over the uniforms.
writeEmitCodePrologue(g) ==
    writePrivateVarValues(
        writef(write(g, <<T("void emitCode(EmitArgs& args) override {")>>),
               <<T("_outer = args.fFp.cast")>>))

\* writeEmitCodeEpilogue without fOut = old.
writeEmitCodeEpilogue_NoRestore(g, oldStream) ==
    LET g2 == writef(g, g.fExtraEmitCodeCode
                        \o <<T("fragBuilder->codeAppendf(\"")>>
                        \o g.streams.mainBuffer \o <<T("\"")>>)
        g3 == writef(g2, [k \in 1..Len(g2.fFormatArgs) |->
                              Tok("argument", g2.fFormatArgs[k].code, k)])
    IN  write(g3, <<T(");"), T("}")>>)

\* writeEmitCode from the return of the nested pass on.
writeEmitCodeEpilogue(g, oldStream) ==
    LET g1 == [g EXCEPT !.fOut = oldStream]
        g2 == writef(g1, g1.fExtraEmitCodeCode
                         \o <<T("fragBuilder->codeAppendf(\"")>>
                         \o g1.streams.mainBuffer \o <<T("\"")>>)
        g3 == writef(g2, [k \in 1..Len(g2.fFormatArgs) |->
                              Tok("argument", g2.fFormatArgs[k].code, k)])
    IN  write(g3, <<T(");"), T("}")>>)

\* The upload that writeSetData writes for a uniform that is also in.
setDataUpload(u) ==
    IF u.type \in {"float4", "half4"} THEN <<Tok("set4fv", u.name, 0)>>
    ELSE IF u.type \in {"float4x4", "half4x4"} THEN <<Tok("setMatrix4f", u.name, 0)>>
    ELSE IF u.type = kColorSpaceXform THEN <<Tok("fColorSpaceHelper.setData", u.name, 0)>>
    ELSE <<Tok("set1f", u.name, 0)>>

\* The locals that writeSetData declares ahead of the setData section.
RECURSIVE setDataAliases(_, _)
setDataAliases(vs, wroteProcessor) ==
    IF vs = <<>> THEN <<>>
    ELSE LET v == Head(vs) IN
         IF needs_uniform_var(v) THEN
             <<Tok("UniformHandle&", v.name, 0)>>
             \o setDataAliases(Tail(vs), wroteProcessor)
         ELSE IF IsParameter(v) THEN
             (IF wroteProcessor THEN <<>> ELSE <<T("_outer = _proc.cast")>>)
             \o <<Tok("auto", v.name, 0)>>
             \o setDataAliases(Tail(vs), TRUE)
         ELSE setDataAliases(Tail(vs), wroteProcessor)

writeSetData(g, us) ==
    LET section == hasSection("setData")
        pdman == IF section THEN getSection("setData").arg ELSE "pdman"
        ins == SelectSeq(us, LAMBDA u : u.in)
        g1 == writef(g, <<Tok("void onSetData(", pdman, 0)>>)
        g2 == IF ins # <<>>
              THEN writef(g1, <<T("_outer = _proc.cast"), T("{")>>
                              \o ForEach(ins, LAMBDA u : TRUE, setDataUpload)
                              \o <<T("}")>>)
              ELSE g1
        g3 == ASSERT(g2, \A k \in 1..Len(ins) :
                             ins[k].type = kColorSpaceXform => g2.fNeedColorSpaceHelper,
                     "fNeedColorSpaceHelper")
        g4 == IF section
              THEN writeSection(writef(g3, setDataAliases(fProgram.vars, ins # <<>>)),
                                "setData")
              ELSE g3
    IN  write(g4, <<T("}")>>)

\* writeFields without the test of fNeedColorSpaceHelper.
writeFields_HelperAlways(g, us) ==
    LET g1 == writePrivateVars(g)
        g2 == writef(g1, ForEach(us, LAMBDA u : needs_uniform_var(u) /\ ~u.in,
                                 LAMBDA u : <<Tok("UniformHandle", u.name, 0)>>))
        g3 == writef(g2, ForEach(getParameters, needs_uniform_var,
                                 LAMBDA v : <<Tok("UniformHandle", v.name, 0)>>))
        g4 == write(g3, <<T("GrGLSLColorSpaceXformHelper fColorSpaceHelper;")>>)
    IN  writef(g4, <<T("};"), T("onCreateGLSLInstance")>>)

\* generateCode: the fields of the GLSL class and the end of the class.
writeFields(g, us) ==
    LET g1 == writePrivateVars(g)
        g2 == writef(g1, ForEach(us, LAMBDA u : needs_uniform_var(u) /\ ~u.in,
                                 LAMBDA u : <<Tok("UniformHandle", u.name, 0)>>))
        g3 == writef(g2, ForEach(getParameters, needs_uniform_var,
                                 LAMBDA v : <<Tok("UniformHandle", v.name, 0)>>))
        g4 == IF g3.fNeedColorSpaceHelper
              THEN write(g3, <<T("GrGLSLColorSpaceXformHelper fColorSpaceHelper;")>>)
              ELSE g3
    IN  writef(g4, <<T("};"), T("onCreateGLSLInstance")>>)

\* The body of the loop of writeGetKey for one parameter.
getKeyOf(g, param) ==
    IF param.type = kColorSpaceXform THEN
        writef(g, <<Tok("add32(XformKey)", param.name, 0)>>)
    ELSE
        LET g1 == IF param.key # "no" /\ param.uniform
                  THEN error(g, param.offset,
                             "layout(key) may not be specified on uniforms")
                  ELSE g
        IN  CASE param.key = "key" ->
                    IF param.type = "float4x4" THEN
                        ABORT(g1, "no automatic key handling for float4x4")
                    ELSE IF param.type = "float2" THEN
                        writef(g1, <<Tok("add32(.fX)", param.name, 0),
                                     Tok("add32(.fY)", param.name, 0)>>)
                    ELSE IF param.type = "float4" THEN
                        writef(g1, <<Tok("add32(.x())", param.name, 0),
                                     Tok("add32(.y())", param.name, 0),
                                     Tok("add32(.width())", param.name, 0),
                                     Tok("add32(.height())", param.name, 0)>>)
                    ELSE
                        writef(g1, <<Tok("add32()", param.name, 0)>>)
              [] param.key = "identity" ->
                    writef(IF kind(param.type) # "matrix"
                           THEN error(g1, param.offset,
                                      "layout(key=identity) requires matrix type")
                           ELSE g1,
                           <<Tok("add32(.isIdentity())", param.name, 0)>>)
              [] param.key = "no" -> g1

RECURSIVE getKeyLoop(_, _)
getKeyLoop(g, params) ==
    IF params = <<>> \/ g.abort # "" THEN g
    ELSE getKeyLoop(getKeyOf(g, Head(params)), Tail(params))

writeGetKey(g) ==
    LET g1 == getKeyLoop(writef(g, <<T("onGetGLSLProcessorKey {")>>), getParameters)
    IN  IF g1.abort # "" THEN g1 ELSE write(g1, <<T("}")>>)

\* writeIsEqual over the parameters that are no uniforms.
writeIsEqual_SkipUniforms(g) ==
    write(writef(writef(g, <<T("onIsEqual {")>>),
                 ForEach(getParameters, LAMBDA v : ~v.uniform,
                         LAMBDA v : <<Tok("if != return false", v.name, 0)>>)),
          <<T("return true;"), T("}")>>)

\* generateCode: the equality method.
writeIsEqual(g) ==
    write(writef(writef(g, <<T("onIsEqual {")>>),
                 ForEach(getParameters, LAMBDA v : TRUE,
                         LAMBDA v : <<Tok("if != return false", v.name, 0)>>)),
          <<T("return true;"), T("}")>>)

writeClone(g) ==
    IF hasSection("clone") THEN writeSection(g, "clone")
    ELSE
        LET g1 == IF hasSection("fields")
                  THEN error(g, 0, "fragment processors with custom @fields must also have a custom@clone")
                  ELSE g
            coord == getSections("coordTransform")
            text ==
                <<T("copy constructor")>>
                \o ForEach(getParameters, LAMBDA v : TRUE,
                           LAMBDA v : <<Tok(", field(src.field)", v.name, 0)>>)
                \o ForEach(coord, LAMBDA c : TRUE,
                           LAMBDA c : <<Tok(", CoordTransform(src.CoordTransform)", c.arg, 0)>>)
                \o <<T(" {")>>
                \o ForEach(getParameters, LAMBDA v : kind(v.type) = "sampler",
                           LAMBDA v : <<Tok("addTextureSampler", v.name, 0)>>)
                \o ForEach(coord, LAMBDA c : TRUE,
                           LAMBDA c : <<Tok("addCoordTransform", c.arg, 0)>>)
                \o <<T("}"), T("clone() const {"), T("return new"), T("}")>>
        IN  writef(g1, text)

\* writeTest without the test of the section's presence.
writeTest_Always(g) ==
    write(writeSection(
              writef(g, <<T("GR_DEFINE_FRAGMENT_PROCESSOR_TEST"),
                          T("#if GR_TEST_UTILS"),
                          Tok("TestCreate(GrProcessorTestData*",
                              IF hasSection("test") THEN getSection("test").arg ELSE "",
                              0)>>),
              "test"),
          <<T("}"), T("#endif")>>)

writeTest(g) ==
    IF hasSection("test") THEN
        write(writeSection(
                  writef(g, <<T("GR_DEFINE_FRAGMENT_PROCESSOR_TEST"),
                              T("#if GR_TEST_UTILS"),
                              Tok("TestCreate(GrProcessorTestData*", getSection("test").arg, 0)>>),
                  "test"),
              <<T("}"), T("#endif")>>)
    ELSE g

\* GLSLCodeGenerator::writeStatement of an expression statement, followed by
\* writeLine.
writeStatement(g, e) ==
    LET g1 == writeExpression(g, e, kTopLevel_Precedence)
    IN  IF g1.abort # "" THEN g1 ELSE write(g1, <<T(";"), T("fLineEnding")>>)

writeVarInitializer(g, var, value) ==
    IF is_private(var)
    THEN writeRuntimeValue(g, var.type, [code |-> "private", name |-> var.name])
    ELSE writeExpression(g, value, kTopLevel_Precedence)

\* GLSLCodeGenerator::writeProgramElement of a global variable declaration.
INHERITED_writeProgramElement(g, var) ==
    LET g1 == write(g, <<Tok("type", var.type, 0), Tok("name", var.name, 0)>>)
        g2 == IF var.hasValue
              THEN writeVarInitializer(write(g1, <<T(" = ")>>), var, IntLit(0))
              ELSE g1
    IN  IF g2.abort # "" THEN g2 ELSE write(g2, <<T(";")>>)

writeProgramElement(g, var) ==
    IF var.in \/ var.uniform \/ var.builtin # NoBuiltin THEN g
    ELSE INHERITED_writeProgramElement(g, var)

\* ------------------------------------------------------------- the inputs
VarNames == <<"v1", "v2", "v3", "v4", "v5">>

Section(name, arg, text) == [name |-> name, arg |-> arg, text |-> text]

sk_TransformedCoords2D ==
    Builtin("sk_TransformedCoords2D", "float2[]", SK_TRANSFORMEDCOORDS2D_BUILTIN)
sk_TextureSamplers ==
    Builtin("sk_TextureSamplers", "sampler2D[]", SK_TEXTURESAMPLERS_BUILTIN)
sk_InColor == Builtin("sk_InColor", "half4", SK_INCOLOR_BUILTIN)
sk_OutColor == Builtin("sk_OutColor", "half4", SK_OUTCOLOR_BUILTIN)

\* The declarations that the programs of the model are made of.
VarTemplates ==
    { Var("", kColorSpaceXform, TRUE, FALSE, "no", FALSE, FALSE),
      Var("", kColorSpaceXform, TRUE, TRUE, "key", FALSE, FALSE),
      Var("", "float", FALSE, TRUE, "key", FALSE, FALSE),
      Var("", "float2", FALSE, TRUE, "key", FALSE, FALSE),
      Var("", "half2", FALSE, TRUE, "key", FALSE, FALSE),
      Var("", "float4", FALSE, TRUE, "key", FALSE, FALSE),
      Var("", "half4", FALSE, TRUE, "key", FALSE, FALSE),
      Var("", "float4", TRUE, TRUE, "no", FALSE, FALSE),
      Var("", "half", TRUE, TRUE, "key", FALSE, FALSE),
      Var("", "float", FALSE, TRUE, "identity", FALSE, FALSE),
      Var("", "float", TRUE, FALSE, "no", TRUE, FALSE),
      Var("", "sampler2D", TRUE, TRUE, "no", FALSE, FALSE),
      Var("", "float4x4", FALSE, TRUE, "key", FALSE, FALSE) }

\* The k-th declaration of a program: named and placed by its position.
Decl(t, k) == [t EXCEPT !.name = VarNames[k], !.offset = k]

Decls(ts) == [k \in 1..Len(ts) |-> Decl(ts[k], k)]

\* The statements of main, each at its own offset.
Body(es) == [k \in 1..Len(es) |-> WithOffset(es[k], 100 + k)]

SeqsUpTo(S, n) == UNION {[1..m -> S] : m \in 0..n}

\* Index expressions into the builtin arrays and a color space call; x is
\* the color space uniform they use.
IndexExprs(x) ==
    {Index(Ref(sk_TransformedCoords2D), IntLit(n)) : n \in 0..MaxIndex}
    \cup {Index(Ref(sk_TransformedCoords2D), Ref(Local("i", "int"))),
          Index(Ref(sk_TextureSamplers), IntLit(0)),
          Call("COLORSPACE", <<Ref(sk_InColor), Ref(x)>>)}

\* Other expressions over the sampler s and the parameter p.
MiscExprs(s, p) ==
    {Call("texture", <<Ref(s), Index(Ref(sk_TransformedCoords2D), IntLit(0))>>),
     Binary("%", IntLit(7), Binary("%", IntLit(5), IntLit(3))),
     Binary("+", Ref(sk_OutColor), Ref(p)),
     Setting("gpImplementsDistanceVector", "bool"),
     Index(Ref(Local("a", "float[]")), IntLit(1)),
     Index(Ref(sk_TextureSamplers), Ref(Local("i", "int"))),
     Call("COLORSPACE", <<Index(Ref(sk_TransformedCoords2D), Ref(Local("i", "int"))),
                          Ref(p)>>)}

SectionLists ==
    { <<>>,
      <<Section("test", "d", "test text")>>,
      <<Section("test", "testData", "other test text"),
        Section("cpp", "", "cpp text"), Section("cppEnd", "", "cppEnd text")>>,
      <<Section("fields", "", "fields text")>>,
      <<Section("fields", "", "fields text"), Section("clone", "", "clone text")>>,
      <<Section("emitCode", "", "emitCode text"),
        Section("setData", "pd", "setData text"),
        Section("coordTransform", "a", ""), Section("coordTransform", "b", "")>> }

Program(vs, body, sections) == [vars |-> vs, body |-> body, sections |-> sections]

\* Programs that differ in the body of main.
BodyPrograms ==
    LET vs == Decls(<<Var("", kColorSpaceXform, TRUE, TRUE, "no", FALSE, FALSE)>>)
    IN  {Program(vs, Body(es), <<>>) : es \in SeqsUpTo(IndexExprs(vs[1]), MaxBody)}

\* Programs that differ in their declarations; main refers to all of them
\* or to none.
DeclPrograms ==
    UNION {LET vs == Decls(ts)
           IN  {Program(vs, <<>>, <<>>),
                Program(vs, Body([k \in 1..Len(vs) |-> Ref(vs[k])]), <<>>)}
           : ts \in SeqsUpTo(VarTemplates, MaxVars)}

\* Programs that differ in their sections.
SectionPrograms ==
    LET vs == Decls(<<Var("", "sampler2D", TRUE, TRUE, "no", FALSE, FALSE),
                      Var("", "float4", TRUE, TRUE, "no", TRUE, FALSE),
                      Var("", "int", FALSE, TRUE, "no", FALSE, FALSE),
                      Var("", "float4x4", FALSE, TRUE, "identity", FALSE, FALSE),
                      Var("", "float", FALSE, FALSE, "no", FALSE, TRUE)>>)
    IN  {Program(vs, Body(es), ss) :
             es \in SeqsUpTo(MiscExprs(vs[1], vs[2]), 1), ss \in SectionLists}

\* ---------------------------------------------------------------- actions
Init ==
    /\ \/ fProgram \in BodyPrograms \cup DeclPrograms /\ inherited = TRUE
       \/ fProgram \in SectionPrograms /\ inherited \in BOOLEAN
    /\ cg = NewGenerator
    /\ pc = "generateCode"
    /\ uniforms = <<>>
    /\ idx = 0
    /\ result = FALSE
    /\ old = "out"
    /\ oldOut = "out"
    /\ run = 1
    /\ first = NewGenerator

\* The generator goes on at next, unless it aborted.
Goto(g, next) ==
    /\ cg' = g
    /\ pc' = IF g.abort # "" THEN "aborted" ELSE next

\* collectUniforms with the test of needs_uniform_var.
collectUniforms_NeedsVar(vs) ==
    SelectSeq(vs, LAMBDA v : needs_uniform_var(v) /\ kind(v.type) # "sampler")

\* generateCode: the uniforms of the program.
collectUniforms(vs) ==
    SelectSeq(vs, LAMBDA v : v.uniform /\ kind(v.type) # "sampler")

\* generateCode up to the call of writeEmitCode.
GenerateCodeBegin ==
    /\ pc = "generateCode"
    /\ uniforms' = collectUniforms(fProgram.vars)
    /\ Goto(writef(writeSection(writef(writef(cg, <<T("kFragmentProcessorHeader")>>),
                                       <<T("#include .h"), T("#if SK_SUPPORT_GPU")>>),
                                "cpp"),
                   <<T("#include glsl"), T("class GrGLSL : public GrGLSLFragmentProcessor {")>>),
            "writeEmitCode")
    /\ UNCHANGED <<fProgram, idx, result, old, oldOut, inherited, run, first>>

WriteEmitCodeBegin ==
    /\ pc = "writeEmitCode"
    /\ idx' = 1
    /\ Goto(writeEmitCodePrologue(cg), "addUniform")
    /\ UNCHANGED <<fProgram, uniforms, result, old, oldOut, inherited, run, first>>

\* One turn of the loop of writeEmitCode over the uniforms.
RegisterUniform ==
    /\ pc = "addUniform"
    /\ idx <= Len(uniforms)
    /\ idx' = idx + 1
    /\ Goto(registerUniform(cg, uniforms[idx]), "addUniform")
    /\ UNCHANGED <<fProgram, uniforms, result, old, oldOut, inherited, run, first>>

\* writeEmitCode: the emitCode section, then the output goes to mainBuffer
\* and GLSLCodeGenerator::generateCode starts.
BeginNestedPass ==
    /\ pc = "addUniform"
    /\ idx > Len(uniforms)
    /\ old' = cg.fOut
    /\ idx' = 1
    /\ Goto([writeSection(cg, "emitCode") EXCEPT !.fOut = "mainBuffer"],
            "writeProgramElement")
    /\ UNCHANGED <<fProgram, uniforms, result, oldOut, inherited, run, first>>

\* GLSLCodeGenerator::generateCode: one top-level declaration.
WriteProgramElement ==
    /\ pc = "writeProgramElement"
    /\ idx <= Len(fProgram.vars)
    /\ idx' = idx + 1
    /\ Goto(writeProgramElement(cg, fProgram.vars[idx]), "writeProgramElement")
    /\ UNCHANGED <<fProgram, uniforms, result, old, oldOut, inherited, run, first>>

\* writeFunction of main: the output goes to a fresh buffer.
WriteFunctionBegin ==
    /\ pc = "writeProgramElement"
    /\ idx > Len(fProgram.vars)
    /\ oldOut' = cg.fOut
    /\ idx' = 1
    /\ Goto([cg EXCEPT !.fFunctionHeader = <<>>, !.fOut = "buffer",
                       !.streams.buffer = <<>>],
            "writeStatement")
    /\ UNCHANGED <<fProgram, uniforms, result, old, inherited, run, first>>

\* writeFunction of main: one statement of the body.
WriteStatement ==
    /\ pc = "writeStatement"
    /\ idx <= Len(fProgram.body)
    /\ idx' = idx + 1
    /\ Goto(writeStatement(cg, fProgram.body[idx]), "writeStatement")
    /\ UNCHANGED <<fProgram, uniforms, result, old, oldOut, inherited, run, first>>

\* WriteFunctionEnd with the buffered body written ahead of the header.
WriteFunctionEnd_BodyFirst ==
    /\ pc = "writeStatement"
    /\ idx > Len(fProgram.body)
    /\ LET g1 == [cg EXCEPT !.fOut = oldOut]
       IN  Goto(write(write(g1, g1.streams.buffer), g1.fFunctionHeader),
                "codeAppendf")
    /\ UNCHANGED <<fProgram, uniforms, idx, result, old, oldOut, inherited, run,
                   first>>

\* writeFunction of main: the output goes back, the header and the buffered
\* body are written.
WriteFunctionEnd ==
    /\ pc = "writeStatement"
    /\ idx > Len(fProgram.body)
    /\ LET g1 == [cg EXCEPT !.fOut = oldOut]
       IN  Goto(write(write(g1, g1.fFunctionHeader), g1.streams.buffer),
                "codeAppendf")
    /\ UNCHANGED <<fProgram, uniforms, idx, result, old, oldOut, inherited, run,
                   first>>

\* writeEmitCode after GLSLCodeGenerator::generateCode returned.
WriteEmitCodeEnd ==
    /\ pc = "codeAppendf"
    /\ result' = inherited
    /\ Goto(writeEmitCodeEpilogue(cg, old), "writeSetData")
    /\ UNCHANGED <<fProgram, uniforms, idx, old, oldOut, inherited, run, first>>

WriteSetData ==
    /\ pc = "writeSetData"
    /\ Goto(writeSetData(write(cg, <<T("private:")>>), uniforms), "writeFields")
    /\ UNCHANGED <<fProgram, uniforms, idx, result, old, oldOut, inherited, run,
                   first>>

WriteFields ==
    /\ pc = "writeFields"
    /\ Goto(writeFields(cg, uniforms), "writeGetKey")
    /\ UNCHANGED <<fProgram, uniforms, idx, result, old, oldOut, inherited, run,
                   first>>

WriteGetKey ==
    /\ pc = "writeGetKey"
    /\ Goto(writeGetKey(cg), "writeIsEqual")
    /\ UNCHANGED <<fProgram, uniforms, idx, result, old, oldOut, inherited, run,
                   first>>

WriteIsEqual ==
    /\ pc = "writeIsEqual"
    /\ Goto(writeIsEqual(cg), "writeClone")
    /\ UNCHANGED <<fProgram, uniforms, idx, result, old, oldOut, inherited, run,
                   first>>

WriteClone ==
    /\ pc = "writeClone"
    /\ Goto(writeClone(cg), "writeTest")
    /\ UNCHANGED <<fProgram, uniforms, idx, result, old, oldOut, inherited, run,
                   first>>

WriteTest ==
    /\ pc = "writeTest"
    /\ Goto(writeTest(cg), "end")
    /\ UNCHANGED <<fProgram, uniforms, idx, result, old, oldOut, inherited, run,
                   first>>

\* generateCodeResult with = in place of &=.
generateCodeResult_Assign(g, r) == Len(g.fErrors) = 0

\* The result of generateCode, from the result of writeEmitCode.
generateCodeResult(g, r) == r /\ Len(g.fErrors) = 0

\* generateCode: the cppEnd section, the closing guard and the result.
GenerateCodeEnd ==
    /\ pc = "end"
    /\ LET g1 == write(writeSection(cg, "cppEnd"), <<T("#endif")>>)
       IN  /\ result' = generateCodeResult(g1, result)
           /\ Goto(g1, "done")
    /\ UNCHANGED <<fProgram, uniforms, idx, old, oldOut, inherited, run, first>>

\* The same program is given to a second, fresh generator.
SecondGenerator ==
    /\ pc = "done"
    /\ run = 1
    /\ run' = 2
    /\ first' = cg
    /\ cg' = NewGenerator
    /\ pc' = "generateCode"
    /\ uniforms' = <<>>
    /\ idx' = 0
    /\ result' = FALSE
    /\ old' = "out"
    /\ oldOut' = "out"
    /\ UNCHANGED <<fProgram, inherited>>

Next ==
    \/ GenerateCodeBegin
    \/ WriteEmitCodeBegin
    \/ RegisterUniform
    \/ BeginNestedPass
    \/ WriteProgramElement
    \/ WriteFunctionBegin
    \/ WriteStatement
    \/ WriteFunctionEnd
    \/ WriteEmitCodeEnd
    \/ WriteSetData
    \/ WriteFields
    \/ WriteGetKey
    \/ WriteIsEqual
    \/ WriteClone
    \/ WriteTest
    \/ GenerateCodeEnd
    \/ SecondGenerator

Spec == Init /\ [][Next]_vars

\* ------------------------------------------------------------- properties
out == cg.streams.out

\* The positions of generateCode before, and after, the body of main.
BeforeBody == {"generateCode", "writeEmitCode", "addUniform", "writeProgramElement"}
AfterEmitCode == {"writeSetData", "writeFields", "writeGetKey", "writeIsEqual",
                  "writeClone", "writeTest", "end", "done"}
AfterBody == {"codeAppendf"} \cup AfterEmitCode

\* The statements of main that have been written.
Written ==
    IF pc = "writeStatement" THEN SubSeq(fProgram.body, 1, idx - 1)
    ELSE IF pc \in AfterBody THEN fProgram.body
    ELSE <<>>

\* text holds part as a contiguous piece.
Contains(text, part) ==
    \E k \in 0..(Len(text) - Len(part)) : SubSeq(text, k + 1, k + Len(part)) = part

\* The conversions that the format arguments take, in order.
ArgumentFormats == [k \in 1..Len(cg.fFormatArgs) |-> cg.fFormatArgs[k].fmt]

\* The literal indices of the index expressions into sk_TransformedCoords2D
\* of an expression, in the order they are written.
RECURSIVE CoordIndices(_)
CoordIndices(e) ==
    IF e.kind = "index" /\ e.args[1].kind = "ref"
       /\ e.args[1].var.builtin = SK_TRANSFORMEDCOORDS2D_BUILTIN
    THEN IF e.args[2].kind = "int" THEN <<e.args[2].value>> ELSE <<>>
    ELSE Flatten([k \in DOMAIN e.args |-> CoordIndices(e.args[k])])

WrittenCoordIndices == Flatten([k \in DOMAIN Written |-> CoordIndices(Written[k])])

Range(f) == {f[k] : k \in DOMAIN f}

\* C1: when writeEmitCode has written the codeAppendf call, the placeholders
\* of the buffered text of main are as many as the format arguments, and the
\* k-th placeholder is the conversion of the k-th argument, also in programs
\* with reported errors.
C1_PlaceholdersMatchArguments ==
    pc = "writeSetData" => PlaceholdersOf(cg.streams.mainBuffer) = ArgumentFormats

\* C2: the Extra-Setup Buffer holds exactly one cache-population statement
\* per distinct literal index into sk_TransformedCoords2D written so far,
\* and every such index expression has appended one format argument that
\* names the cached variable of its index.
C2_OneCacheStatementPerIndex ==
    pc # "aborted" =>
        /\ \A k \in DOMAIN cg.fExtraEmitCodeCode :
               cg.fExtraEmitCodeCode[k].part = "ensureCoords2D"
        /\ \A j, k \in DOMAIN cg.fExtraEmitCodeCode :
               cg.fExtraEmitCodeCode[j].idx = cg.fExtraEmitCodeCode[k].idx => j = k
        /\ {t.idx : t \in Range(cg.fExtraEmitCodeCode)} = Range(WrittenCoordIndices)
        /\ cg.fWrittenTransformedCoords = Range(WrittenCoordIndices)
        /\ LET named == SelectSeq(cg.fFormatArgs,
                                  LAMBDA a : a.code = "sk_TransformedCoords2D_")
           IN  [k \in DOMAIN named |-> named[k].idx] = WrittenCoordIndices

\* Slot 0 was indexed twice and slot 1 once, and the pass is over.
C2_Witness ==
    /\ pc = "done"
    /\ WrittenCoordIndices = <<0, 1, 0>>
    /\ Len(cg.fExtraEmitCodeCode) = 2

XformMessage == "only a single ColorSpaceXform is supported"

XformUniforms ==
    SelectSeq(fProgram.vars, LAMBDA v : v.uniform /\ v.type = kColorSpaceXform)

XformErrors == SelectSeq(cg.fErrors, LAMBDA e : e.msg = XformMessage)

AfterRegistration == {"writeProgramElement", "writeStatement"} \cup AfterBody

\* C3: a program with two uniforms of the color-space-transform type gets
\* exactly one error for them, at the offset of the second; when they are all
\* it declares, generation does not abort, runs to the closing guard with
\* that one error reported, and generateCode returns false.
C3_TwoXformsOneError ==
    Len(XformUniforms) = 2 =>
        /\ pc \in AfterRegistration =>
               XformErrors = <<[offset |-> XformUniforms[2].offset, msg |-> XformMessage]>>
        /\ Len(fProgram.vars) = 2 =>
               /\ pc # "aborted"
               /\ pc = "done" =>
                      /\ cg.fErrors = XformErrors
                      /\ out[Len(out)] = T("#endif")
                      /\ result = FALSE

C3_Witness ==
    /\ pc = "done"
    /\ Len(XformUniforms) = 2
    /\ Len(fProgram.vars) = 2
    /\ Len(cg.fErrors) = 1
    /\ fProgram.body # <<>>

\* The clone part of the output is there: the clone section, or the
\* synthesized copy constructor and clone().
CloneWritten ==
    IF hasSection("clone")
    THEN Contains(out, <<Tok("section", getSection("clone").text, 0)>>)
    ELSE Contains(out, <<T("copy constructor")>>) /\ Contains(out, <<T("clone() const {")>>)

\* C4: generateCode returns true exactly when the nested pass returned true
\* and no error has been reported by the end; reported errors do not stop
\* generation: the key-builder, the equality method, the clone and the
\* closing guard are written before the result is computed.
C4_ResultIffNoErrors ==
    pc = "done" =>
        /\ result = (inherited /\ Len(cg.fErrors) = 0)
        /\ Contains(out, <<T("onGetGLSLProcessorKey {")>>)
        /\ Contains(out, <<T("return true;"), T("}")>>)
        /\ CloneWritten
        /\ hasSection("cppEnd") =>
               out[Len(out) - 1] = Tok("section", getSection("cppEnd").text, 0)
        /\ out[Len(out)] = T("#endif")

\* The nested pass returned true, writeClone reported an error, and the
\* pass went on to the end and returned false.
C4_Witness ==
    /\ pc = "done"
    /\ inherited
    /\ ~result
    /\ \E k \in DOMAIN cg.fErrors : cg.fErrors[k].offset = 0
    /\ Contains(out, <<T("clone() const {")>>)

AfterGetKey == {"writeIsEqual", "writeClone", "writeTest", "end", "done"}

Add32Parts == {"add32(XformKey)", "add32(.fX)", "add32(.fY)", "add32(.x())",
               "add32(.y())", "add32(.width())", "add32(.height())", "add32()",
               "add32(.isIdentity())"}

\* The contribution statements of the key-builder for a parameter, in order.
Contributions(param) ==
    LET ts == SelectSeq(out, LAMBDA t : t.part \in Add32Parts /\ t.name = param.name)
    IN  [k \in DOMAIN ts |-> ts[k].part]

\* C5: for a parameter with key mode raw the key-builder writes 2
\* contributions (x, y) when its type has 2 components, 4 (x, y, width,
\* height) when it has 4, of either precision, and 1 for any other type that
\* is no matrix.
C5_RawKeyContributions ==
    pc \in AfterGetKey =>
        \A k \in DOMAIN getParameters :
            LET param == getParameters[k] IN
            param.key = "key" =>
                IF param.type \in {"float2", "half2"}
                THEN Contributions(param) = <<"add32(.fX)", "add32(.fY)">>
                ELSE IF param.type \in {"float4", "half4"}
                THEN Contributions(param) = <<"add32(.x())", "add32(.y())",
                                              "add32(.width())", "add32(.height())">>
                ELSE kind(param.type) # "matrix" => Len(Contributions(param)) = 1

TestParts == {"GR_DEFINE_FRAGMENT_PROCESSOR_TEST", "#if GR_TEST_UTILS",
              "TestCreate(GrProcessorTestData*"}

\* C7: the test factory and its guard are in the output exactly when the
\* program has a test section; then they are there once, the factory's
\* parameter is the section's argument, and the section's text stands
\* between the signature and the closing of the guard.
C7_TestFactoryIffSection ==
    IF hasSection("test") /\ pc \in {"end", "done"}
    THEN /\ \A p \in TestParts : Len(Parts(out, p)) = 1
         /\ Contains(out, <<T("GR_DEFINE_FRAGMENT_PROCESSOR_TEST"),
                            T("#if GR_TEST_UTILS"),
                            Tok("TestCreate(GrProcessorTestData*", getSection("test").arg, 0),
                            Tok("section", getSection("test").text, 0),
                            T("}"), T("#endif")>>)
    ELSE \A p \in TestParts : Parts(out, p) = <<>>

C7_Witness ==
    /\ pc = "done"
    /\ hasSection("test")
    /\ getSection("test").arg = "testData"
    /\ Contains(out, <<Tok("TestCreate(GrProcessorTestData*", "testData", 0)>>)

AfterIsEqual == {"writeClone", "writeTest", "end", "done"}

\* C8: the equality method holds one comparison per parameter, in the order
\* of their declarations, and then a single return true.
C8_EqualityComparesEveryParameter ==
    pc \in AfterIsEqual =>
        LET compared == [k \in DOMAIN getParameters |->
                             Tok("if != return false", getParameters[k].name, 0)]
        IN  /\ Contains(out, <<T("onIsEqual {")>> \o compared
                             \o <<T("return true;"), T("}")>>)
            /\ Parts(out, "if != return false") = compared
            /\ Len(Parts(out, "return true;")) = 1

\* The equality method of a program with two parameters, one a uniform.
C8_Witness ==
    /\ pc = "done"
    /\ Len(getParameters) = 2
    /\ getParameters[2].uniform
    /\ Len(Parts(out, "if != return false")) = 2

\* C9: the emission method holds at most one emitCode statement of the
\* color-space helper, however many color-space-transform uniforms there are.
C9_HelperEmittedAtMostOnce ==
    Len(Parts(out, "fColorSpaceHelper.emitCode")) <= 1

\* C10: the assertion that the helper-needed flag is set never fails, neither
\* where a reference to a color-space-transform uniform is written nor where
\* its upload is written.
C10_HelperAssertionHolds == "fNeedColorSpaceHelper" \notin cg.assertFailed

\* A reference to a color-space-transform uniform was written, and the
\* upload of one that is also in.
C10_Witness ==
    /\ pc = "done"
    /\ \E k \in DOMAIN cg.fFormatArgs :
           cg.fFormatArgs[k].code = "fColorSpaceHelper.gamutXformUniform"
    /\ Parts(out, "fColorSpaceHelper.setData") # <<>>

\* An index expression into sk_TransformedCoords2D or sk_TextureSamplers
\* whose index is no integer literal.
NonLiteralIndex(e) ==
    /\ e.kind = "index"
    /\ e.args[1].kind = "ref"
    /\ e.args[1].var.builtin \in {SK_TRANSFORMEDCOORDS2D_BUILTIN,
                                  SK_TEXTURESAMPLERS_BUILTIN}
    /\ e.args[2].kind # "int"

\* The error that such an index expression is to report.
IndexError(e) ==
    [offset |-> e.args[2].offset,
     msg |-> IF e.args[1].var.builtin = SK_TRANSFORMEDCOORDS2D_BUILTIN
             THEN "index into sk_TransformedCoords2D must be an integer literal"
             ELSE "index into sk_TextureSamplers must be an integer literal"]

\* The errors of the non-literal indices of an expression, in the order the
\* expression is written.
RECURSIVE IndexErrors(_)
IndexErrors(e) ==
    IF NonLiteralIndex(e) THEN <<IndexError(e)>>
    ELSE Flatten([k \in DOMAIN e.args |-> IndexErrors(e.args[k])])

\* C11: a statement of main that is an index into sk_TransformedCoords2D or
\* sk_TextureSamplers with a non-literal index reports exactly one error, at
\* the offset of the index, and appends nothing to the format arguments, to
\* the Extra-Setup Buffer or to the materialized indices; generation does
\* not abort and goes on with the next statement. A statement that holds
\* such index expressions reports exactly their errors, in order.
C11_NonLiteralIndexReportsAndReturns ==
    [][pc = "writeStatement" /\ idx <= Len(fProgram.body) =>
           LET e == fProgram.body[idx] IN
           /\ NonLiteralIndex(e) =>
                  /\ cg'.fErrors = Append(cg.fErrors, IndexError(e))
                  /\ cg'.fFormatArgs = cg.fFormatArgs
                  /\ cg'.fExtraEmitCodeCode = cg.fExtraEmitCodeCode
                  /\ cg'.fWrittenTransformedCoords = cg.fWrittenTransformedCoords
                  /\ cg'.abort = ""
                  /\ pc' = "writeStatement"
                  /\ idx' = idx + 1
           /\ pc' # "aborted" => cg'.fErrors = cg.fErrors \o IndexErrors(e)]_vars

\* The first statement of main had a non-literal index, a later one was
\* written with its format argument, and generation came to its end.
C11_Witness ==
    /\ pc = "done"
    /\ Len(fProgram.body) >= 2
    /\ NonLiteralIndex(fProgram.body[1])
    /\ cg.fErrors = <<IndexError(fProgram.body[1])>>
    /\ cg.fFormatArgs # <<>>
    /\ ~result

KeyMessage == "layout(key) may not be specified on uniforms"

\* The errors of the key-builder about key modes on uniforms, in order.
KeyErrors == SelectSeq(cg.fErrors, LAMBDA e : e.msg = KeyMessage)

\* The parameters with a key mode and the uniform flag, in order.
KeyedUniforms == SelectSeq(getParameters, LAMBDA v : v.key # "no" /\ v.uniform)

\* C12: when the key-builder has been written, it has reported one error
\* per parameter that has a key mode other than none and the uniform flag,
\* at the offset of that parameter, whatever its type, and has gone on to
\* write the contributions of that parameter.
C12_KeyOnUniformReported ==
    pc \in AfterGetKey =>
        /\ KeyErrors = [k \in DOMAIN KeyedUniforms |->
                            [offset |-> KeyedUniforms[k].offset, msg |-> KeyMessage]]
        /\ \A k \in DOMAIN KeyedUniforms : Contributions(KeyedUniforms[k]) # <<>>

\* The number of COLORSPACE calls that are written with an expression.
RECURSIVE ColorSpaceCalls(_)
ColorSpaceCalls(e) ==
    IF e.kind = "call" /\ e.name = "COLORSPACE" THEN 1 + ColorSpaceCalls(e.args[1])
    ELSE IF e.kind = "index" /\ e.args[1].kind = "ref"
            /\ e.args[1].var.builtin \in {SK_TRANSFORMEDCOORDS2D_BUILTIN,
                                          SK_TEXTURESAMPLERS_BUILTIN}
    THEN 0
    ELSE LET RECURSIVE Sum(_)
             Sum(k) == IF k = 0 THEN 0 ELSE ColorSpaceCalls(e.args[k]) + Sum(k - 1)
         IN  Sum(Len(e.args))

RECURSIVE WrittenColorSpaceCalls(_)
WrittenColorSpaceCalls(k) ==
    IF k = 0 THEN 0 ELSE ColorSpaceCalls(Written[k]) + WrittenColorSpaceCalls(k - 1)

\* The numbers of the temporaries that a text declares, in order.
Declared(text) ==
    LET ts == Parts(text, "half4 _tmpVar") IN [k \in DOMAIN ts |-> ts[k].idx]

\* The numbers of the temporaries that the format arguments assign, in order.
Assigned ==
    LET as == SelectSeq(cg.fFormatArgs, LAMBDA a : a.code = "(_tmpVar = ")
    IN  [k \in DOMAIN as |-> as[k].idx]

\* C13: the COLORSPACE calls written in the body of main take the temporaries
\* 1, 2, ... of the increasing counter, pairwise distinct; once writeFunction
\* has returned, the text of the redirection target ends with the
\* declarations of these temporaries, once each, followed by the buffered
\* body, which holds no declaration; the finished emission method holds each
\* declaration once.
C13_TemporariesDeclaredOnceBeforeBody ==
    LET n == WrittenColorSpaceCalls(Len(Written))
        upto == [k \in 1..n |-> k]
        main == cg.streams.mainBuffer
        body == cg.streams.buffer
    IN  /\ pc = "writeStatement" =>
               /\ cg.fVarCount = n
               /\ Assigned = upto
               /\ Declared(cg.fFunctionHeader) = upto
               /\ Declared(cg.streams.mainBuffer) = <<>>
               /\ Declared(out) = <<>>
        /\ pc \in AfterBody =>
               /\ Assigned = upto
               /\ Declared(main) = upto
               /\ Declared(body) = <<>>
               /\ Len(main) >= n + Len(body)
               /\ SubSeq(main, Len(main) - Len(body) + 1, Len(main)) = body
               /\ Declared(SubSeq(main, Len(main) - Len(body) - n + 1,
                                  Len(main) - Len(body))) = upto
        /\ pc \in AfterEmitCode => Declared(out) = upto

\* Two COLORSPACE calls were written in main and generation came to its end.
C13_Witness ==
    /\ pc = "done"
    /\ WrittenColorSpaceCalls(Len(Written)) = 2
    /\ Declared(out) = <<1, 2>>
    /\ cg.streams.buffer # <<>>

\* The token is the text of the section of that name.
IsSection(t, name) ==
    t.part = "section" /\ hasSection(name) /\ t.name = getSection(name).text

\* The place of a token among the parts of the output file, 0 for a token
\* that starts no part. The parts 6, 7, 9, 11, 13 and 14 are written once per
\* declaration, index or argument, the others once.
Rank(t) ==
    CASE t.part = "kFragmentProcessorHeader" -> 1
      [] t.part = "#include .h" -> 2
      [] IsSection(t, "cpp") -> 3
      [] t.part = "class GrGLSL : public GrGLSLFragmentProcessor {" -> 4
      [] t.part = "void emitCode(EmitArgs& args) override {" -> 5
      [] t.part = "private value" -> 6
      [] t.part \in {"addUniform", "fColorSpaceHelper.emitCode"} -> 7
      [] IsSection(t, "emitCode") -> 8
      [] t.part = "ensureCoords2D" -> 9
      [] t.part = "fragBuilder->codeAppendf(\"" -> 10
      [] t.part = "argument" -> 11
      [] t.part = ");" -> 12
      [] t.part = "private field" -> 13
      [] t.part = "UniformHandle" -> 14
      [] t.part = "GrGLSLColorSpaceXformHelper fColorSpaceHelper;" -> 15
      [] t.part = "onGetGLSLProcessorKey {" -> 16
      [] t.part = "onIsEqual {" -> 17
      [] IsSection(t, "clone") \/ t.part = "copy constructor" -> 18
      [] t.part = "TestCreate(GrProcessorTestData*" -> 19
      [] IsSection(t, "cppEnd") -> 20
      [] OTHER -> 0

Repeated == {6, 7, 9, 11, 13, 14}

\* The places of the parts of a text, in the order of the text.
RECURSIVE Ranks(_)
Ranks(text) ==
    IF text = <<>> THEN <<>>
    ELSE (IF Rank(Head(text)) > 0 THEN <<Rank(Head(text))>> ELSE <<>>)
         \o Ranks(Tail(text))

\* The parts that every output file holds, and those of the program at hand.
PartsOf(prog) ==
    {1, 2, 4, 5, 10, 12, 16, 17, 18}
    \cup (IF hasSection("cpp") THEN {3} ELSE {})
    \cup (IF hasSection("emitCode") THEN {8} ELSE {})
    \cup (IF \E k \in DOMAIN prog.vars : prog.vars[k].uniform
                                         /\ prog.vars[k].type = kColorSpaceXform
          THEN {15} ELSE {})
    \cup (IF hasSection("test") THEN {19} ELSE {})
    \cup (IF hasSection("cppEnd") THEN {20} ELSE {})

\* C14: the parts of the output stand in the fixed order: file header,
\* inclusion preamble, top-of-file section, helper-class skeleton, emission
\* method (private-field initializers, uniform registrations, emit-setup
\* section, Extra-Setup Buffer text, the one formatted append call and its
\* arguments), private fields, uniform-handle fields, color-space helper
\* field, key-builder, equality, clone, test factory, trailing section,
\* closing guard. Each part other than the per-declaration ones is written
\* at most once at any time, and at the end exactly once when it belongs to
\* the program; the helper field is there exactly when the program has a
\* color-space-transform uniform; the closing guard is the last line.
C14_PartsOnceInFixedOrder ==
    LET rs == Ranks(out) IN
    /\ pc # "aborted" =>
           \A j, k \in DOMAIN rs :
               j < k => rs[j] < rs[k] \/ (rs[j] = rs[k] /\ rs[j] \in Repeated)
    /\ pc = "done" =>
           /\ Range(rs) \ Repeated = PartsOf(fProgram)
           /\ out[Len(out)] = T("#endif")
           /\ Len(Parts(out, "#endif")) = IF hasSection("test") THEN 2 ELSE 1

\* A finished output file with sections at both ends, uniform registrations,
\* format arguments, private and uniform-handle fields and a test factory.
C14_Witness ==
    /\ pc = "done"
    /\ {3, 6, 7, 9, 11, 13, 14, 19, 20} \subseteq Range(Ranks(out))

\* The positions of generateCode inside the nested pass of writeEmitCode.
NestedPass == {"writeProgramElement", "writeStatement"}

\* C15: both redirections are undone. The output target is the real output
\* up to the nested pass of writeEmitCode, mainBuffer inside the pass and
\* outside main, the buffer of writeFunction inside main; when writeFunction
\* returns the target is mainBuffer again, when the nested pass has returned
\* it is the real output again, also after reported errors; no step inside
\* the nested pass writes to the real output, and no step inside main
\* writes to mainBuffer.
C15_RedirectionUndone ==
    [][/\ pc \in BeforeBody \ NestedPass => cg.fOut = "out"
       /\ pc = "writeProgramElement" => cg.fOut = "mainBuffer" /\ old = "out"
       /\ pc = "writeStatement" => cg.fOut = "buffer" /\ oldOut = "mainBuffer"
       /\ pc \in NestedPass => cg'.streams.out = cg.streams.out
       /\ pc' = "writeStatement" => cg'.streams.mainBuffer = cg.streams.mainBuffer
       /\ pc' = "codeAppendf" => cg'.fOut = "mainBuffer"
       /\ pc' \in AfterEmitCode => cg'.fOut = "out"]_vars

\* A non-literal index was reported in main, and the closing guard went to
\* the real output.
C15_Witness ==
    /\ pc = "done"
    /\ cg.fOut = "out"
    /\ \E k \in DOMAIN fProgram.body : IndexErrors(fProgram.body[k]) # <<>>
    /\ cg.fErrors # <<>>
    /\ cg.streams.buffer # <<>>
    /\ out[Len(out)] = T("#endif")

\* The uniform-handle fields and the registration statements that the
\* output holds for a declaration.
HandleFields(v) ==
    Len(SelectSeq(out, LAMBDA t : t.part = "UniformHandle" /\ t.name = v.name))

Registrations(v) ==
    Len(SelectSeq(out, LAMBDA t : t.part = "addUniform" /\ t.name = v.name))

\* C16: when the fields have been written, every declaration has as many
\* uniform-handle fields as registration statements, none or one: no handle
\* is declared twice, none for a declaration that is not registered, and
\* none is missing for a registered one.
C16_HandleIffRegistered ==
    pc \in AfterGetKey \cup {"writeGetKey"} =>
        \A k \in DOMAIN fProgram.vars :
            /\ HandleFields(fProgram.vars[k]) = Registrations(fProgram.vars[k])
            /\ Registrations(fProgram.vars[k]) <= 1

====
